---- MODULE Spec2Model ----
(***************************************************************************)
(* A model of stopuhr's Chronometer (src/src/stopuhr/chrono.py): the keyed *)
(* duration accumulator with start/stop pairing, the scoped-timing context *)
(* manager, merge/combine across instances and the tabular export.         *)
(*                                                                         *)
(* Python dicts keep insertion order, so a dict is a sequence of entries.  *)
(* The lists held by `durations` are objects: an entry holds a reference   *)
(* into `lists`, so that sharing a list between two instances is a state   *)
(* the model can express.                                                  *)
(***************************************************************************)
EXTENDS Integers, Sequences, FiniteSets, Bags, TLC

VARIABLES
    alive,          \* the Chronometer objects that exist
    printer,        \* self.printer, per instance
    res,            \* self.res, per instance
    log,            \* self.log, per instance
    durations,      \* self.durations, per instance: <<[key, ref], ...>>
    lists,          \* the list objects referenced by durations
    idling_starts,  \* self.idling_starts, per instance: <<[key, q], ...>>
    clock,          \* the next reading of time.perf_counter()
    scopes,         \* the open `with timer(key, ...)` blocks, innermost last
    loop,           \* the start/stop loop of examples/basic-usage.py
    wrapped,        \* the decorated function: None until a decorator has wrapped it
    last,           \* the last operation called and how it ended
    emitted         \* the messages the last operation passed to a sink

vars == <<alive, printer, res, log, durations, lists, idling_starts, clock,
          scopes, loop, wrapped, last, emitted>>

----------------------------------------------------------------------------
(* Bounds of the model *)

\* perf_counter readings taken in one behaviour
MaxTime == 4
\* most positional and most keyword arguments of a call whose binding is
\* looked at on its own
MaxArgs == 3
MaxKwargs == 2
\* longest duration list merge/combine may build
MaxLen == 2
\* most Chronometers passed to one combine call
MaxTimers == 2
\* most iterations of the start/stop loop
MaxPairs == 3
\* deepest nesting of scoped-timing blocks
MaxDepth == 2

----------------------------------------------------------------------------
(* Values *)

\* An optional argument is None or Some(value); a call that ends without an
\* exception raised NoError.
None == <<>>
Some(x) == <<x>>
NoError == "no error"

Keys == {"test", "test2"}

\* stopwatch is the module-level instance; timer is a second, separately
\* configured Chronometer; combined is the object a combine call returns.
Workers == {"stopwatch", "timer"}
Inst == Workers \cup {"combined"}

\* the (res, log, printer) arguments of the timed calls: all defaults, log=False
\* (examples/basic-usage.py), and the overrides the tests pass (res=3, a
\* collecting printer; res=0)
CallArgs ==
    { [res |-> None, log |-> None, printer |-> None],
      [res |-> None, log |-> Some(FALSE), printer |-> None],
      [res |-> Some(3), log |-> Some(TRUE), printer |-> Some("out")],
      [res |-> Some(0), log |-> None, printer |-> Some("out")] }

----------------------------------------------------------------------------
(* Insertion-ordered dicts *)

Has(d, k) == \E n \in DOMAIN d : d[n].key = k

Entry(d, k) == d[CHOOSE n \in DOMAIN d : d[n].key = k]

\* defaultdict(list).__getitem__ on self.durations: a missing key is inserted
\* with a new empty list, owned by the instance
durations_getitem(d, self, key) ==
    IF Has(d, key) THEN d ELSE Append(d, [key |-> key, ref |-> <<self, key>>])

\* defaultdict(list).__getitem__ on self.idling_starts
idling_getitem(d, key) ==
    IF Has(d, key) THEN d ELSE Append(d, [key |-> key, q |-> <<>>])

\* faulty variant: a key whose list has become empty is deleted from the dict
SetQ_dropping(d, key, q) ==
    IF q = <<>> THEN SelectSeq(d, LAMBDA e : e.key # key)
    ELSE [n \in DOMAIN d |-> IF d[n].key = key THEN [key |-> key, q |-> q] ELSE d[n]]

\* self.idling_starts[key] after an append or a pop(0): the same list object
SetQ(d, key, q) ==
    [n \in DOMAIN d |-> IF d[n].key = key THEN [key |-> key, q |-> q] ELSE d[n]]

\* what reading ds[self][key] yields (no values when the key is absent)
RecordedIn(ds, h, self, key) ==
    IF Has(ds[self], key) THEN h[Entry(ds[self], key).ref] ELSE <<>>

Recorded(self, key) == RecordedIn(durations, lists, self, key)

PendingIn(idle, self, key) ==
    IF Has(idle[self], key) THEN Entry(idle[self], key).q ELSE <<>>

KeySet(d) == {d[n].key : n \in DOMAIN d}

Pending(self, key) == PendingIn(idling_starts, self, key)

\* the durations of an instance as Python would print them: key -> values
View(d, h) == [n \in DOMAIN d |-> [key |-> d[n].key, values |-> h[d[n].ref]]]

\* sum(values)
RECURSIVE Sum(_)
Sum(values) == IF values = <<>> THEN 0 ELSE Head(values) + Sum(Tail(values))

----------------------------------------------------------------------------
(* Argument binding and the key of a call of a function wrapped by f *)

\* the function the decorators wrap: test_function(a, b, c) of the tests, with
\* a declared default for c
Signature ==
    << [name |-> "a", default |-> None],
       [name |-> "b", default |-> None],
       [name |-> "c", default |-> Some(3)] >>

ParamNames(sig) == {sig[n].name : n \in DOMAIN sig}

Kw(name, value) == [key |-> name, value |-> value]

\* the calls made: positional, with a default left to apply, by keyword in
\* and out of declared order, with another value, and one that leaves out b
Calls ==
    { [args |-> <<1, 2, 3>>, kwargs |-> <<>>],
      [args |-> <<1, 2>>, kwargs |-> <<>>],
      [args |-> <<1>>, kwargs |-> <<Kw("c", 3), Kw("b", 2)>>],
      [args |-> <<>>, kwargs |-> <<Kw("b", 2), Kw("a", 1)>>],
      [args |-> <<4, 2, 3>>, kwargs |-> <<>>],
      [args |-> <<1>>, kwargs |-> <<>>] }

\* d[key] = value on a dict: a key already present keeps its position
dict_set(d, key, value) ==
    IF Has(d, key)
    THEN [n \in DOMAIN d |-> IF d[n].key = key THEN Kw(key, value) ELSE d[n]]
    ELSE Append(d, Kw(key, value))

\* for arg_name, arg_value in zip(sig.parameters.keys(), args)
bind_positional(sig, args) ==
    [n \in 1..(IF Len(sig) < Len(args) THEN Len(sig) ELSE Len(args)) |->
        Kw(sig[n].name, args[n])]

\* faulty variant: every keyword argument is taken, declared or not
RECURSIVE bind_keywords_any(_, _, _, _)
bind_keywords_any(bound_args, sig, kwargs, n) ==
    IF n > Len(kwargs) THEN bound_args
    ELSE bind_keywords_any(dict_set(bound_args, kwargs[n].key, kwargs[n].value),
                           sig, kwargs, n + 1)

\* for key, value in kwargs.items(): if key in sig.parameters
RECURSIVE bind_keywords(_, _, _, _)
bind_keywords(bound_args, sig, kwargs, n) ==
    IF n > Len(kwargs) THEN bound_args
    ELSE bind_keywords(IF kwargs[n].key \in ParamNames(sig)
                       THEN dict_set(bound_args, kwargs[n].key, kwargs[n].value)
                       ELSE bound_args,
                       sig, kwargs, n + 1)

\* for param_name, param in sig.parameters.items():
\*     if param_name not in bound_args and param.default != param.empty
RECURSIVE bind_defaults(_, _, _)
bind_defaults(bound_args, sig, n) ==
    IF n > Len(sig) THEN bound_args
    ELSE bind_defaults(IF ~Has(bound_args, sig[n].name) /\ sig[n].default # None
                       THEN Append(bound_args, Kw(sig[n].name, sig[n].default[1]))
                       ELSE bound_args,
                       sig, n + 1)

\* _get_bound_args: the dict of name -> value, in insertion order
get_bound_args(sig, args, kwargs) ==
    bind_defaults(bind_keywords(bind_positional(sig, args), sig, kwargs, 1), sig, 1)

\* faulty variant: {k: v for k, v in bound_args.items() if k in print_kwargs},
\* the names kept in the order of the binding
filter_args_bound_order(bound_args, names, n) ==
    SelectSeq(bound_args, LAMBDA item : \E m \in 1..n : names[m] = item.key)

\* {k: bound_args[k] for k in print_kwargs if k in bound_args}
RECURSIVE filter_args(_, _, _)
filter_args(bound_args, names, n) ==
    IF n = 0 THEN <<>>
    ELSE LET before == filter_args(bound_args, names, n - 1)
         IN  IF Has(bound_args, names[n])
             THEN dict_set(before, names[n], Entry(bound_args, names[n]).value)
             ELSE before

\* ", ".join(f"{k}={v}" for k, v in bound_args.items())
RECURSIVE join(_)
join(items) ==
    IF items = <<>> THEN ""
    ELSE LET item == items[1].key \o "=" \o ToString(items[1].value)
         IN  IF Len(items) = 1 THEN item ELSE item \o ", " \o join(Tail(items))

\* _inner_key += f" (with {bound_args_msg})"
with_args(key, bound_args) == key \o " (with " \o join(bound_args) \o ")"

\* the print_kwargs argument of f: a list of names, "all" (any other truthy
\* value), or None (any falsy value that is not a list)
All == [kind |-> "all", names |-> <<>>]
Nothing == [kind |-> "none", names |-> <<>>]
Only(names) == [kind |-> "list", names |-> names]

PrintKwargs ==
    {All, Nothing, Only(<<"a", "c">>), Only(<<"c", "a">>), Only(<<"b">>),
     Only(<<"a", "d">>)}

\* faulty variant: no check of the allow-list against what the call has bound
inner_key_unchecked(key, print_kwargs, sig, call) ==
    LET bound_args == get_bound_args(sig, call.args, call.kwargs)
        names == print_kwargs.names
    IN  IF print_kwargs.kind = "list"
        THEN [raised |-> NoError,
              key |-> with_args(key, filter_args(bound_args, names, Len(names)))]
        ELSE IF print_kwargs.kind = "all"
        THEN [raised |-> NoError, key |-> with_args(key, bound_args)]
        ELSE [raised |-> NoError, key |-> key]

\* the first lines of _inner: the key the call is timed under, or the
\* ValueError of an allow-listed name the call has not bound
inner_key(key, print_kwargs, sig, call) ==
    LET bound_args == get_bound_args(sig, call.args, call.kwargs)
        names == print_kwargs.names
    IN  IF print_kwargs.kind = "list"
        THEN IF \E n \in DOMAIN names : ~Has(bound_args, names[n])
             THEN [raised |-> "ValueError", key |-> key]
             ELSE [raised |-> NoError,
                   key |-> with_args(key, filter_args(bound_args, names, Len(names)))]
        ELSE IF print_kwargs.kind = "all"
        THEN [raised |-> NoError, key |-> with_args(key, bound_args)]
        ELSE [raised |-> NoError, key |-> key]

\* every key a wrapped call of the module-level instance may be timed under
InnerKeys ==
    {inner_key("test", pk, Signature, call).key : pk \in PrintKwargs, call \in Calls}

\* the list objects: one per instance and key
Addr == Inst \X (Keys \cup InnerKeys)

----------------------------------------------------------------------------
(* Chronometer.__init__ / reset *)

NoCall == [op |-> "none"]

NoLoop == [pc |-> "off", self |-> "stopwatch", key |-> "", i |-> 0]

EmptyLists == [a \in Addr |-> <<>>]

Init ==
    /\ alive = Workers
    /\ printer = [i \in Inst |-> IF i = "timer" THEN "logger" ELSE "print"]
    /\ res = [i \in Inst |-> IF i = "timer" THEN 3 ELSE 2]
    /\ log = [i \in Inst |-> i # "timer"]
    /\ durations = [i \in Inst |-> <<>>]
    /\ lists = EmptyLists
    /\ idling_starts = [i \in Inst |-> <<>>]
    /\ clock = 0
    /\ scopes = <<>>
    /\ loop = NoLoop
    /\ wrapped = None
    /\ last = NoCall
    /\ emitted = <<>>

\* faulty variant: only durations is rebound, the open starts survive
reset_keeping_starts(self) ==
    /\ self \in alive
    /\ durations' = [durations EXCEPT ![self] = <<>>]
    /\ lists' = [a \in Addr |-> IF a[1] = self THEN <<>> ELSE lists[a]]
    /\ last' = [op |-> "reset", self |-> self, raised |-> NoError]
    /\ emitted' = <<>>
    /\ UNCHANGED <<alive, printer, res, log, idling_starts, clock, scopes, loop, wrapped>>

\* faulty variant: the lists are emptied in place, the keys stay
reset_clearing_lists(self) ==
    /\ self \in alive
    /\ lists' = [a \in Addr |-> IF a[1] = self THEN <<>> ELSE lists[a]]
    /\ idling_starts' = [idling_starts EXCEPT ![self] = <<>>]
    /\ last' = [op |-> "reset", self |-> self, raised |-> NoError]
    /\ emitted' = <<>>
    /\ UNCHANGED <<alive, printer, res, log, durations, clock, scopes, loop, wrapped>>

reset(self) ==
    /\ self \in alive
    /\ durations' = [durations EXCEPT ![self] = <<>>]
    /\ lists' = [a \in Addr |-> IF a[1] = self THEN <<>> ELSE lists[a]]
    /\ idling_starts' = [idling_starts EXCEPT ![self] = <<>>]
    /\ last' = [op |-> "reset", self |-> self, raised |-> NoError]
    /\ emitted' = <<>>
    /\ UNCHANGED <<alive, printer, res, log, clock, scopes, loop, wrapped>>

----------------------------------------------------------------------------
(* start / stop *)

\* faulty variant: the timestamp is appended to the list of every key
start_effect_all(self, key) ==
    LET d == idling_getitem(idling_starts[self], key)
    IN  [n \in DOMAIN d |-> [key |-> d[n].key, q |-> Append(d[n].q, clock)]]

\* self.idling_starts[key].append(perf_counter())
start_effect(self, key) ==
    LET d == idling_getitem(idling_starts[self], key)
    IN  SetQ(d, key, Append(Entry(d, key).q, clock))

start(self, key) ==
    /\ self \in alive
    /\ clock < MaxTime
    /\ idling_starts' = [idling_starts EXCEPT ![self] = start_effect(self, key)]
    /\ clock' = clock + 1
    /\ last' = [op |-> "start", self |-> self, key |-> key, raised |-> NoError]
    /\ emitted' = <<>>
    /\ UNCHANGED <<alive, printer, res, log, durations, lists, scopes, loop, wrapped>>

\* `res or self.res`: None and 0 are falsy
res_default(arg, default) == IF arg = None \/ arg = Some(0) THEN default ELSE arg[1]

\* `printer or self.printer`: a callable is truthy
printer_default(arg, default) == IF arg = None THEN default ELSE arg[1]

\* faulty variant: `log or self.log`, so that log=False falls back to the default
log_default_or(arg, default) == IF arg = None \/ arg = Some(FALSE) THEN default ELSE arg[1]

\* `log if log is not None else self.log`
log_default(arg, default) == IF arg = None THEN default ELSE arg[1]

\* faulty variant: q[0], the first element read but not removed
pop0_peek(q) == [item |-> Head(q), rest |-> q]

\* faulty variant: list.pop(), the newest start instead of the oldest
pop_last(q) == [item |-> q[Len(q)], rest |-> SubSeq(q, 1, Len(q) - 1)]

\* list.pop(0): the element removed and the list left
pop0(q) == [item |-> Head(q), rest |-> Tail(q)]

\* f"{key} took {duration:.{res}f}s"
took(key, duration, digits) ==
    [form |-> "took", key |-> key, value |-> duration, digits |-> digits]

\* faulty variant: the IndexError swallowed, stop returns as if nothing happened
not_started_silent(self, idle) ==
    [idling_starts |-> idle, durations |-> durations[self], lists |-> lists,
     emitted |-> <<>>, raised |-> NoError]

\* except IndexError: raise ValueError(f"Key '{key}' not started!")
\* idle is self.idling_starts after the lookup of key
not_started(self, idle) ==
    [idling_starts |-> idle, durations |-> durations[self], lists |-> lists,
     emitted |-> <<>>, raised |-> "ValueError"]

\* the printers that raise when they are called: what assert_never() of the
\* tests returns
RaisingSinks == {"never"}

\* printer(msg): how the call of the sink ends
sink_call(sink) == IF sink \in RaisingSinks THEN "AssertionError" ELSE NoError

\* faulty variant: the message is printed before the duration is appended
stop_effect_log_first(self, key, res_, log_, printer_) ==
    LET digits == res_default(res_, res[self])
        logging == log_default(log_, log[self])
        sink == printer_default(printer_, printer[self])
        end == clock
        idle == idling_getitem(idling_starts[self], key)
        q == Entry(idle, key).q
    IN  IF q = <<>>
        THEN not_started(self, idle)
        ELSE LET popped == pop0(q)
                 duration == end - popped.item
                 d == durations_getitem(durations[self], self, key)
                 ref == Entry(d, key).ref
                 failed == logging /\ sink_call(sink) # NoError
             IN  [idling_starts |-> SetQ(idle, key, popped.rest),
                  durations |-> IF failed THEN durations[self] ELSE d,
                  lists |-> IF failed THEN lists
                            ELSE [lists EXCEPT ![ref] = Append(@, duration)],
                  emitted |-> IF logging
                              THEN <<[sink |-> sink, msg |-> took(key, duration, digits)]>>
                              ELSE <<>>,
                  raised |-> IF logging THEN sink_call(sink) ELSE NoError]

\* The state stop leaves behind and how it ends; emitted is what the
\* sink was called with.
stop_effect(self, key, res_, log_, printer_) ==
    LET digits == res_default(res_, res[self])
        logging == log_default(log_, log[self])
        sink == printer_default(printer_, printer[self])
        end == clock
        idle == idling_getitem(idling_starts[self], key)
        q == Entry(idle, key).q
    IN  IF q = <<>>
        THEN not_started(self, idle)
        ELSE LET popped == pop0(q)
                 duration == end - popped.item
                 d == durations_getitem(durations[self], self, key)
                 ref == Entry(d, key).ref
             IN  [idling_starts |-> SetQ(idle, key, popped.rest),
                  durations |-> d,
                  lists |-> [lists EXCEPT ![ref] = Append(@, duration)],
                  emitted |-> IF logging
                              THEN <<[sink |-> sink, msg |-> took(key, duration, digits)]>>
                              ELSE <<>>,
                  raised |-> IF logging THEN sink_call(sink) ELSE NoError]

\* ret is what the caller gets back when stop has not raised
Stopped(self, key, res_, log_, printer_, op, ret) ==
    LET e == stop_effect(self, key, res_, log_, printer_)
    IN  /\ idling_starts' = [idling_starts EXCEPT ![self] = e.idling_starts]
        /\ durations' = [durations EXCEPT ![self] = e.durations]
        /\ lists' = e.lists
        /\ emitted' = e.emitted
        /\ clock' = clock + 1
        /\ last' = [op |-> op, self |-> self, key |-> key, raised |-> e.raised,
                    args |-> [res |-> res_, log |-> log_, printer |-> printer_],
                    ret |-> IF e.raised = NoError THEN ret ELSE None]

stop(self, key, res_, log_, printer_) ==
    /\ self \in alive
    /\ clock < MaxTime
    /\ Stopped(self, key, res_, log_, printer_, "stop", None)
    /\ UNCHANGED <<alive, printer, res, log, scopes, loop, wrapped>>

----------------------------------------------------------------------------
(* __call__: the @contextmanager generator used as `with timer(key, ...)` *)
(* and, through ContextDecorator, as the plain decorator `@timer(key)`.   *)

\* the generator runs to its yield: self.start(key); the arguments stay in
\* the suspended frame (entered notes the clock reading start took)
call_enter(self, key, res_, log_, printer_) ==
    /\ self \in alive
    /\ clock < MaxTime
    /\ Len(scopes) < MaxDepth
    /\ idling_starts' = [idling_starts EXCEPT ![self] = start_effect(self, key)]
    /\ clock' = clock + 1
    /\ scopes' = Append(scopes, [self |-> self, key |-> key, res |-> res_,
                                 log |-> log_, printer |-> printer_, fn |-> None,
                                 entered |-> clock])
    /\ last' = [op |-> "enter", self |-> self, key |-> key, raised |-> NoError]
    /\ emitted' = <<>>
    /\ UNCHANGED <<alive, printer, res, log, durations, lists, loop, wrapped>>

\* faulty variant: the wrapper calls the function and drops what it returns
returned_nothing(f) == None

\* `return func(*args, **kwargs)` inside the timed block: what the caller of
\* the block's owner gets back; a `with` statement gives nothing back
returned(f) == IF f.fn = None THEN None ELSE f.fn[1].result

\* the body ended normally: the generator resumes after the yield and runs
\* self.stop(key, res=res, log=log, printer=printer); a wrapped function then
\* returns what the function returned. A body that is an ill-formed call of
\* the function (TypeError) has no normal end.
call_exit ==
    /\ scopes # <<>>
    /\ clock < MaxTime
    /\ LET f == scopes[Len(scopes)]
       IN  /\ f.fn # None => f.fn[1].result # None
           /\ Stopped(f.self, f.key, f.res, f.log, f.printer, "exit", returned(f))
    /\ scopes' = SubSeq(scopes, 1, Len(scopes) - 1)
    /\ UNCHANGED <<alive, printer, res, log, loop, wrapped>>

\* what the body raises: an ill-formed call of the wrapped function is a
\* TypeError, anything else is the body's own error
body_error(f) ==
    IF f.fn # None /\ f.fn[1].result = None THEN "TypeError" ELSE "BodyError"

\* faulty variant: the yield inside `try: ... except Exception: pass`
generator_throw_swallowed(error) == NoError

\* the exception thrown into the generator at the yield: the yield is in no
\* try statement, so the same exception leaves the generator and the with
\* statement re-raises it
generator_throw(error) == error

\* the body raised: the exception is thrown into the generator at the yield,
\* which is not inside a try statement, so the generator ends there
call_throw ==
    /\ scopes # <<>>
    /\ LET f == scopes[Len(scopes)]
       IN  last' = [op |-> "throw", self |-> f.self, key |-> f.key,
                    raised |-> generator_throw(body_error(f))]
    /\ scopes' = SubSeq(scopes, 1, Len(scopes) - 1)
    /\ emitted' = <<>>
    /\ UNCHANGED <<alive, printer, res, log, durations, lists, idling_starts, clock, loop,
                   wrapped>>

----------------------------------------------------------------------------
(* The decorators: `@timer(key, ...)` (plain, ContextDecorator around       *)
(* __call__) and `@timer.f(key, ..., print_kwargs=...)`.                   *)

\* what Python itself binds in the call func(*args, **kwargs): the value of
\* each parameter, or None when the call is ill-formed (TypeError)
python_bind(sig, call) ==
    LET positional == {sig[n].name : n \in 1..Len(call.args)}
        keywords == {call.kwargs[n].key : n \in DOMAIN call.kwargs}
        defaulted == {sig[n].name : n \in {m \in DOMAIN sig : sig[m].default # None}}
    IN  IF /\ Len(call.args) <= Len(sig)
           /\ keywords \subseteq ParamNames(sig)
           /\ Cardinality(keywords) = Len(call.kwargs)
           /\ positional \cap keywords = {}
           /\ ParamNames(sig) \subseteq positional \cup keywords \cup defaulted
        THEN Some([n \in DOMAIN sig |->
                     IF n <= Len(call.args) THEN call.args[n]
                     ELSE IF sig[n].name \in keywords
                     THEN Entry(call.kwargs, sig[n].name).value
                     ELSE sig[n].default[1]])
        ELSE None

\* the wrapped function returns a value that depends on every argument
test_function(call) ==
    LET bound == python_bind(Signature, call)
    IN  IF bound = None THEN None ELSE Some(Sum(bound[1]))

\* variant: the printer given to f is handed on to the timed block, as
\* `self(_inner_key, res=res, log=log, printer=printer)` would
f_wrapper_printer(self, key, res_, log_, printer_, print_kwargs) ==
    [kind |-> "f", self |-> self, key |-> key,
     res |-> Some(res_default(res_, res[self])),
     log |-> Some(log_default(log_, log[self])),
     printer |-> Some(printer_default(printer_, printer[self])),
     print_kwargs |-> print_kwargs,
     given |-> [res |-> res_, log |-> log_, printer |-> printer_],
     defaults |-> [res |-> res[self], log |-> log[self]]]

\* f(key, res, log, printer, print_kwargs)(func): res and log are resolved when
\* f is called; _inner passes them on as `self(_inner_key, res=res, log=log)`,
\* and passes no printer. `given` keeps the arguments f was called with and
\* `defaults` the instance's res and log at that moment.
f_wrapper(self, key, res_, log_, printer_, print_kwargs) ==
    [kind |-> "f", self |-> self, key |-> key,
     res |-> Some(res_default(res_, res[self])),
     log |-> Some(log_default(log_, log[self])),
     printer |-> None,
     print_kwargs |-> print_kwargs,
     given |-> [res |-> res_, log |-> log_, printer |-> printer_],
     defaults |-> [res |-> res[self], log |-> log[self]]]

\* self(key, res, log, printer)(func): the arguments are kept as given and a
\* new generator is made from them on every call
plain_wrapper(self, key, res_, log_, printer_) ==
    [kind |-> "plain", self |-> self, key |-> key,
     res |-> res_, log |-> log_, printer |-> printer_,
     print_kwargs |-> Nothing,
     given |-> [res |-> res_, log |-> log_, printer |-> printer_],
     defaults |-> [res |-> res[self], log |-> log[self]]]

\* faulty variant: the allow-list is not checked when the function is wrapped
unknown_names_unchecked(print_kwargs, sig) == FALSE

\* isinstance(print_kwargs, list) and
\*     any(k not in func_signature.parameters for k in print_kwargs)
unknown_names(print_kwargs, sig) ==
    /\ print_kwargs.kind = "list"
    /\ \E n \in DOMAIN print_kwargs.names : print_kwargs.names[n] \notin ParamNames(sig)

\* @self.f(key, ...) applied to the function. The function is wrapped once; a
\* decoration that raises binds nothing and leaves what there was.
decorate_f(self, key, res_, log_, printer_, print_kwargs) ==
    /\ self \in alive
    /\ wrapped = None \/ unknown_names(print_kwargs, Signature)
    /\ IF unknown_names(print_kwargs, Signature)
       THEN /\ wrapped' = wrapped
            /\ last' = [op |-> "decorate", self |-> self, key |-> key,
                        print_kwargs |-> print_kwargs, raised |-> "ValueError"]
       ELSE /\ wrapped' = Some(f_wrapper(self, key, res_, log_, printer_, print_kwargs))
            /\ last' = [op |-> "decorate", self |-> self, key |-> key,
                        print_kwargs |-> print_kwargs, raised |-> NoError]
    /\ emitted' = <<>>
    /\ UNCHANGED <<alive, printer, res, log, durations, lists, idling_starts, clock,
                   scopes, loop>>

\* @self(key, ...) applied to the function
decorate_plain(self, key, res_, log_, printer_) ==
    /\ self \in alive
    /\ wrapped = None
    /\ wrapped' = Some(plain_wrapper(self, key, res_, log_, printer_))
    /\ last' = [op |-> "decorate", self |-> self, key |-> key,
                print_kwargs |-> Nothing, raised |-> NoError]
    /\ emitted' = <<>>
    /\ UNCHANGED <<alive, printer, res, log, durations, lists, idling_starts, clock,
                   scopes, loop>>

\* `stopwatch.res = 3`: the instance's default precision is assigned
set_res(self, value) ==
    /\ self \in alive
    /\ res' = [res EXCEPT ![self] = value]
    /\ last' = [op |-> "set", self |-> self, raised |-> NoError]
    /\ emitted' = <<>>
    /\ UNCHANGED <<alive, printer, log, durations, lists, idling_starts, clock, scopes,
                   loop, wrapped>>

\* `stopwatch.log = False`: the instance's default log flag is assigned
set_log(self, value) ==
    /\ self \in alive
    /\ log' = [log EXCEPT ![self] = value]
    /\ last' = [op |-> "set", self |-> self, raised |-> NoError]
    /\ emitted' = <<>>
    /\ UNCHANGED <<alive, printer, res, durations, lists, idling_starts, clock, scopes,
                   loop, wrapped>>

\* a call of the wrapped function, up to the start of the function's body:
\* _inner builds its key (f only), then the timed block is entered. The
\* function does not call itself (its body is time.sleep).
wrapped_call(call) ==
    /\ wrapped # None
    /\ clock < MaxTime
    /\ scopes = <<>>
    /\ LET w == wrapped[1]
           k == IF w.kind = "f" THEN inner_key(w.key, w.print_kwargs, Signature, call)
                ELSE [raised |-> NoError, key |-> w.key]
       IN  IF k.raised # NoError
           THEN /\ last' = [op |-> "call", self |-> w.self, key |-> k.key,
                            call |-> call, raised |-> k.raised]
                /\ UNCHANGED <<idling_starts, clock, scopes>>
           ELSE /\ idling_starts' =
                      [idling_starts EXCEPT ![w.self] = start_effect(w.self, k.key)]
                /\ clock' = clock + 1
                /\ scopes' = Append(scopes,
                      [self |-> w.self, key |-> k.key, res |-> w.res, log |-> w.log,
                       printer |-> w.printer,
                       fn |-> Some([call |-> call, result |-> test_function(call)]),
                       entered |-> clock])
                /\ last' = [op |-> "call", self |-> w.self, key |-> k.key,
                            call |-> call, raised |-> NoError]
    /\ emitted' = <<>>
    /\ UNCHANGED <<alive, printer, res, log, durations, lists, loop, wrapped>>

----------------------------------------------------------------------------
(* export *)

Max(S) == CHOOSE x \in S : \A y \in S : y <= x

Min(S) == CHOOSE x \in S : \A y \in S : x <= y

\* values + [pd.NA] * (max_len - len(values)); a cell is Some(value) or None
padded(values, max_len) ==
    [n \in 1..Len(values) |-> Some(values[n])] \o
    [n \in 1..(max_len - Len(values)) |-> None]

\* faulty variant: min() for max(), so that no padding is added to any column
export_columns_min(d, h) ==
    LET max_len == Min({Len(h[d[n].ref]) : n \in DOMAIN d})
    IN  [n \in DOMAIN d |-> [key |-> d[n].key, column |-> padded(h[d[n].ref], max_len)]]

\* the dict handed to pd.DataFrame: one column per key, in key order
export_columns(d, h) ==
    LET max_len == Max({Len(h[d[n].ref]) : n \in DOMAIN d})
    IN  [n \in DOMAIN d |-> [key |-> d[n].key, column |-> padded(h[d[n].ref], max_len)]]

export(self) ==
    /\ self \in alive
    /\ last' = IF durations[self] = <<>>
               THEN \* max() of an empty generator
                    [op |-> "export", self |-> self, raised |-> "ValueError"]
               ELSE [op |-> "export", self |-> self, raised |-> NoError,
                     ret |-> export_columns(durations[self], lists)]
    /\ emitted' = <<>>
    /\ UNCHANGED <<alive, printer, res, log, durations, lists, idling_starts, clock,
                   scopes, loop, wrapped>>

----------------------------------------------------------------------------
(* merge / combine *)

\* faulty variant: other's values put in front of self's
extend_front(list, values) == values \o list

\* list.extend
extend(list, values) == list \o values

\* faulty variant: a key self lacks is bound to other's list object itself
\* (self.durations[key] = values) instead of a new list extended by it
RECURSIVE merge_items_alias(_, _, _, _, _)
merge_items_alias(d, h, self, items, n) ==
    IF n > Len(items) THEN [durations |-> d, lists |-> h]
    ELSE LET key == items[n].key
             values == h[items[n].ref]
         IN  IF Has(d, key)
             THEN merge_items_alias(d, [h EXCEPT ![Entry(d, key).ref] = @ \o values],
                                    self, items, n + 1)
             ELSE merge_items_alias(Append(d, [key |-> key, ref |-> items[n].ref]), h,
                                    self, items, n + 1)

\* for key, values in other.durations.items(): self.durations[key].extend(values)
\* d is self.durations, h the list objects, items the entries of other.durations
RECURSIVE merge_items(_, _, _, _, _)
merge_items(d, h, self, items, n) ==
    IF n > Len(items) THEN [durations |-> d, lists |-> h]
    ELSE LET key == items[n].key
             values == h[items[n].ref]
             d1 == durations_getitem(d, self, key)
             ref == Entry(d1, key).ref
         IN  merge_items(d1, [h EXCEPT ![ref] = extend(@, values)], self, items, n + 1)

\* faulty variant: the values are moved, other's lists are left empty
merged_draining(ds, h, self, other) ==
    LET m == merge_items(ds[self], h, self, ds[other], 1)
    IN  [durations |-> [ds EXCEPT ![self] = m.durations],
         lists |-> [a \in Addr |->
                      IF a[1] = other /\ other # self THEN <<>> ELSE m.lists[a]]]

\* the durations of every instance and the list objects after self.merge(other)
merged(ds, h, self, other) ==
    LET m == merge_items(ds[self], h, self, ds[other], 1)
    IN  [durations |-> [ds EXCEPT ![self] = m.durations], lists |-> m.lists]

Fits(h) == \A a \in Addr : Len(h[a]) <= MaxLen

merge(self, other) ==
    /\ self \in alive /\ other \in alive
    /\ LET m == merged(durations, lists, self, other)
       IN  /\ Fits(m.lists)
           /\ durations' = m.durations
           /\ lists' = m.lists
    /\ last' = [op |-> "merge", raised |-> NoError]
    /\ emitted' = <<>>
    /\ UNCHANGED <<alive, printer, res, log, idling_starts, clock, scopes, loop, wrapped>>

\* for timer in timers: combined.merge(timer)
RECURSIVE combine_timers(_, _, _, _)
combine_timers(ds, h, timers, n) ==
    IF n > Len(timers) THEN [durations |-> ds, lists |-> h]
    ELSE LET m == merged(ds, h, "combined", timers[n])
         IN  combine_timers(m.durations, m.lists, timers, n + 1)

\* which Chronometer's printer, res and log the new one is built with
config_of(timers) == timers[1]

\* faulty variant: the first timer gives the configuration and is not merged
combined_state_rest(timers) ==
    combine_timers([durations EXCEPT !["combined"] = <<>>],
                   [a \in Addr |-> IF a[1] = "combined" THEN <<>> ELSE lists[a]],
                   timers, 2)

\* Chronometer(printer=..., res=..., log=...) followed by the merges
combined_state(timers) ==
    combine_timers([durations EXCEPT !["combined"] = <<>>],
                   [a \in Addr |-> IF a[1] = "combined" THEN <<>> ELSE lists[a]],
                   timers, 1)

TimerLists == UNION {[1..n -> Workers] : n \in 0..MaxTimers}

\* combine(*timers), or combine(timers) with one list when as_list
combine(timers, as_list) ==
    /\ timers \in TimerLists
    /\ IF timers = <<>>
       THEN \* combine(): timers[0] of an empty tuple; combine([]): the assert
            /\ last' = [op |-> "combine", timers |-> timers,
                        raised |-> IF as_list THEN "AssertionError" ELSE "IndexError"]
            /\ UNCHANGED <<alive, printer, res, log, durations, lists, idling_starts>>
       ELSE LET c == combined_state(timers)
                first == config_of(timers)
            IN  /\ Fits(c.lists)
                /\ alive' = alive \cup {"combined"}
                /\ printer' = [printer EXCEPT !["combined"] = printer[first]]
                /\ res' = [res EXCEPT !["combined"] = res[first]]
                /\ log' = [log EXCEPT !["combined"] = log[first]]
                /\ durations' = c.durations
                /\ lists' = c.lists
                /\ idling_starts' = [idling_starts EXCEPT !["combined"] = <<>>]
                /\ last' = [op |-> "combine", timers |-> timers, raised |-> NoError]
    /\ emitted' = <<>>
    /\ UNCHANGED <<clock, scopes, loop, wrapped>>

----------------------------------------------------------------------------
(* summary *)

RECURSIVE SumSq(_)
SumSq(values) ==
    IF values = <<>> THEN 0 ELSE Head(values) * Head(values) + SumSq(Tail(values))

\* statistics.mean, as the fraction <<numerator, denominator>>
mean(values) == <<Sum(values), Len(values)>>

\* statistics.stdev, the root of the sample variance (n - 1 in the denominator);
\* the variance is given as the fraction <<numerator, denominator>>
stdev(values) ==
    LET n == Len(values)
    IN  <<n * SumSq(values) - Sum(values) * Sum(values), n * (n - 1)>>

\* f"{key} has no durations recorded"
no_durations(key) == [form |-> "none", key |-> key]

\* f"{key} took {mean_val} ± {stdev_val}s (n={n} -> {total=}s)"
took_stats(key, values, digits) ==
    [form |-> "stats", key |-> key, mean |-> mean(values), stdev |-> stdev(values),
     n |-> Len(values), total |-> Sum(values), digits |-> digits]

\* faulty variant: no branch for a single value, stdev is computed for it
summary_line_stats(key, values, digits) ==
    IF values = <<>> THEN no_durations(key) ELSE took_stats(key, values, digits)

\* the line summary prints for one key
summary_line(key, values, digits) ==
    IF values = <<>> THEN no_durations(key)
    ELSE IF Len(values) = 1 THEN took(key, values[1], digits)
    ELSE took_stats(key, values, digits)

\* for key, values in self.durations.items(): printer(...)
summary_lines(d, h, digits, sink) ==
    [n \in DOMAIN d |->
        [sink |-> sink, msg |-> summary_line(d[n].key, h[d[n].ref], digits)]]

SummaryArgs ==
    { [res |-> r, printer |-> p] : r \in {None, Some(0), Some(1)},
                                   p \in {None, Some("out")} }

summary(self, res_, printer_) ==
    /\ self \in alive
    /\ LET digits == res_default(res_, res[self])
           sink == printer_default(printer_, printer[self])
       IN  emitted' = summary_lines(durations[self], lists, digits, sink)
    /\ last' = [op |-> "summary", self |-> self, raised |-> NoError,
                args |-> [res |-> res_, log |-> None, printer |-> printer_]]
    /\ UNCHANGED <<alive, printer, res, log, durations, lists, idling_starts, clock,
                   scopes, loop, wrapped>>

----------------------------------------------------------------------------

\* the timing operations of one Chronometer
Next ==
    \/ reset("stopwatch")
    \/ \E key \in Keys : start("stopwatch", key)
    \/ \E key \in Keys, a \in CallArgs : stop("stopwatch", key, a.res, a.log, a.printer)
    \/ \E key \in Keys, a \in CallArgs :
          call_enter("stopwatch", key, a.res, a.log, a.printer)
    \/ call_exit
    \/ call_throw
    \/ export("stopwatch")

Spec == Init /\ [][Next]_vars

----------------------------------------------------------------------------
(* The start/stop loop of examples/basic-usage.py:                         *)
(*     stopwatch.reset()                                                   *)
(*     for i in range(n):                                                  *)
(*         stopwatch.start(key); time.sleep(0.2)                           *)
(*         stopwatch.stop(key, log=False)                                  *)

loop_reset(key) ==
    /\ loop = NoLoop
    /\ durations' = [durations EXCEPT !["stopwatch"] = <<>>]
    /\ lists' = [a \in Addr |-> IF a[1] = "stopwatch" THEN <<>> ELSE lists[a]]
    /\ idling_starts' = [idling_starts EXCEPT !["stopwatch"] = <<>>]
    /\ loop' = [pc |-> "start", self |-> "stopwatch", key |-> key, i |-> 0]
    /\ last' = [op |-> "reset", self |-> "stopwatch", raised |-> NoError]
    /\ emitted' = <<>>
    /\ UNCHANGED <<alive, printer, res, log, clock, scopes, wrapped>>

loop_start ==
    /\ loop.pc = "start" /\ loop.i < MaxPairs
    /\ idling_starts' = [idling_starts EXCEPT ![loop.self] = start_effect(loop.self, loop.key)]
    /\ clock' = clock + 1
    /\ loop' = [loop EXCEPT !.pc = "stop"]
    /\ last' = [op |-> "start", self |-> loop.self, key |-> loop.key, raised |-> NoError]
    /\ emitted' = <<>>
    /\ UNCHANGED <<alive, printer, res, log, durations, lists, scopes, wrapped>>

loop_stop ==
    /\ loop.pc = "stop"
    /\ Stopped(loop.self, loop.key, None, Some(FALSE), None, "stop", None)
    /\ loop' = [loop EXCEPT !.pc = "start", !.i = @ + 1]
    /\ UNCHANGED <<alive, printer, res, log, scopes, wrapped>>

\* what the program does before the loop, and under other keys while it runs
Elsewhere(key) == loop.pc = "off" \/ key # loop.key

NextLoop ==
    \/ \E key \in Keys : loop_reset(key)
    \/ loop_start
    \/ loop_stop
    \/ \E key \in Keys : Elsewhere(key) /\ start("stopwatch", key)
    \/ \E key \in Keys :
          Elsewhere(key) /\ stop("stopwatch", key, None, Some(FALSE), None)

SpecLoop == Init /\ [][NextLoop]_vars

----------------------------------------------------------------------------
(* Several Chronometers, merged and combined: the workers have already     *)
(* recorded (advanced-usage.py, simulate_process) when the reduction runs. *)

\* what a worker has recorded under a key it has used (every value differs,
\* so a merged list shows where each value came from), and the start the
\* module-level instance has left open
Recording(self, key) ==
    IF self = "stopwatch" THEN (IF key = "test" THEN <<1>> ELSE <<2>>)
    ELSE (IF key = "test" THEN <<3>> ELSE <<4, 5>>)

OpenStarts(self) ==
    IF self = "stopwatch" THEN <<[key |-> "test", q |-> <<0>>]>> ELSE <<>>

\* the orders in which a worker may have first recorded its keys
KeyOrders ==
    {o \in UNION {[1..n -> Keys] : n \in 0..Cardinality(Keys)} :
        \A a, b \in DOMAIN o : a # b => o[a] # o[b]}

InitMerge ==
    /\ alive = Workers
    /\ printer = [i \in Inst |-> IF i = "timer" THEN "logger" ELSE "print"]
    /\ res = [i \in Inst |-> IF i = "timer" THEN 3 ELSE 2]
    /\ log = [i \in Inst |-> i # "timer"]
    /\ \E o \in [Workers -> KeyOrders] :
          durations = [i \in Inst |->
              IF i \in Workers
              THEN [n \in DOMAIN o[i] |-> [key |-> o[i][n], ref |-> <<i, o[i][n]>>]]
              ELSE <<>>]
    /\ lists = [a \in Addr |->
          IF a[1] \in Workers /\ Has(durations[a[1]], a[2])
          THEN Recording(a[1], a[2]) ELSE <<>>]
    /\ idling_starts = [i \in Inst |-> IF i \in Workers THEN OpenStarts(i) ELSE <<>>]
    /\ clock = 1
    /\ scopes = <<>>
    /\ loop = NoLoop
    /\ wrapped = None
    /\ last = NoCall
    /\ emitted = <<>>

NextMerge ==
    \/ \E self \in Inst, other \in Inst : merge(self, other)
    \/ \E timers \in TimerLists, as_list \in BOOLEAN : combine(timers, as_list)
    \/ \E self \in Workers : export(self)

SpecMerge == InitMerge /\ [][NextMerge]_vars

\* the reduction alone: combine applied to what the workers recorded
NextCombine == \E timers \in TimerLists, as_list \in BOOLEAN : combine(timers, as_list)

SpecCombine == InitMerge /\ [][NextCombine]_vars

----------------------------------------------------------------------------
(* Workers that record under one key, are combined, and go on recording   *)
(* (advanced-usage.py: simulate_process, then Chronometer.combine).       *)

NextWorkers ==
    \/ \E self \in Inst : start(self, "test")
    \/ \E self \in Inst : stop(self, "test", None, Some(FALSE), None)
    \/ \E timers \in TimerLists, as_list \in BOOLEAN : combine(timers, as_list)

SpecWorkers == Init /\ [][NextWorkers]_vars

----------------------------------------------------------------------------
(* Two differently configured Chronometers timing under one key, with the *)
(* per-call options of the tests: stopwatch logs by default, timer does    *)
(* not (tests/test_chrono.py: test_default_no_log, test_default_res).      *)

NextCalls ==
    \/ \E self \in Workers : start(self, "test")
    \/ \E self \in Workers, a \in CallArgs : stop(self, "test", a.res, a.log, a.printer)
    \/ \E self \in Workers, a \in CallArgs :
          call_enter(self, "test", a.res, a.log, a.printer)
    \/ call_exit
    \/ call_throw

SpecCalls == Init /\ [][NextCalls]_vars

----------------------------------------------------------------------------
(* A function wrapped once by one of the decorators of the module-level   *)
(* instance and then called (tests/test_chrono.py: test_default_decorator, *)
(* test_adv_decorator, test_adv_decorator_with_arg_filter).                *)

NextDecor ==
    \/ \E a \in CallArgs, pk \in PrintKwargs :
          decorate_f("stopwatch", "test", a.res, a.log, a.printer, pk)
    \/ \E a \in CallArgs : decorate_plain("stopwatch", "test", a.res, a.log, a.printer)
    \/ \E call \in Calls : wrapped_call(call)
    \/ call_exit
    \/ call_throw

SpecDecor == Init /\ [][NextDecor]_vars

----------------------------------------------------------------------------
(* _get_bound_args on its own: applied to the calls of test_function that  *)
(* can be written with few arguments, well-formed or not.                  *)

ArgLists == UNION {[1..n -> {1, 2}] : n \in 0..MaxArgs}

\* keyword arguments: distinct names, one of them (z) not a parameter, in any
\* order; the n-th keyword carries the value 4 + n
KwLists ==
    LET names == {o \in UNION {[1..n -> {"a", "b", "c", "z"}] : n \in 0..MaxKwargs} :
                     \A i, j \in DOMAIN o : i # j => o[i] # o[j]}
    IN  {[n \in DOMAIN o |-> Kw(o[n], 4 + n)] : o \in names}

BindCalls == {[args |-> a, kwargs |-> k] : a \in ArgLists, k \in KwLists}

InitBind ==
    /\ alive = Workers
    /\ printer = [i \in Inst |-> IF i = "timer" THEN "logger" ELSE "print"]
    /\ res = [i \in Inst |-> IF i = "timer" THEN 3 ELSE 2]
    /\ log = [i \in Inst |-> i # "timer"]
    /\ durations = [i \in Inst |-> <<>>]
    /\ lists = EmptyLists
    /\ idling_starts = [i \in Inst |-> <<>>]
    /\ clock = 0
    /\ scopes = <<>>
    /\ loop = NoLoop
    /\ wrapped = None
    /\ \E call \in BindCalls : last = [op |-> "args", call |-> call]
    /\ emitted = <<>>

bind ==
    /\ last.op = "args"
    /\ last' = [op |-> "bound", call |-> last.call,
                ret |-> get_bound_args(Signature, last.call.args, last.call.kwargs)]
    /\ UNCHANGED <<alive, printer, res, log, durations, lists, idling_starts, clock,
                   scopes, loop, wrapped, emitted>>

NextBind == bind

SpecBind == InitBind /\ [][NextBind]_vars

----------------------------------------------------------------------------
(* The summary printed after the workers have recorded and been merged     *)
(* (tests/test_chrono.py, test_summary).                                   *)

NextSummary ==
    \/ \E self \in Workers, a \in SummaryArgs : summary(self, a.res, a.printer)
    \/ \E self \in Workers, other \in Workers : merge(self, other)

SpecSummary == InitMerge /\ [][NextSummary]_vars

----------------------------------------------------------------------------
(* The superseded StopUhr next to the Chronometer: one block timed by     *)
(* both, `with stopuhr(key, ...), stopwatch(key, ...):`.                   *)

\* the StopUhr object: it has durations, idling_starts and a printer, and
\* no res or log of its own
StopUhrs == {"stopuhr"}

\* the (res, log) arguments of StopUhr.__call__: the declared defaults,
\* log=False (the class docstring) and another precision
StopUhrArgs ==
    { [res |-> 2, log |-> TRUE], [res |-> 2, log |-> FALSE], [res |-> 3, log |-> TRUE] }

InitBoth ==
    /\ alive = Workers
    /\ printer = [i \in Inst \cup StopUhrs |-> IF i = "timer" THEN "logger" ELSE "print"]
    /\ res = [i \in Inst |-> IF i = "timer" THEN 3 ELSE 2]
    /\ log = [i \in Inst |-> i # "timer"]
    /\ durations = [i \in Inst \cup StopUhrs |-> <<>>]
    /\ lists = [a \in Addr \cup (StopUhrs \X Keys) |-> <<>>]
    /\ idling_starts = [i \in Inst \cup StopUhrs |-> <<>>]
    /\ clock = 0
    /\ scopes = <<>>
    /\ loop = NoLoop
    /\ wrapped = None
    /\ last = NoCall
    /\ emitted = <<>>

\* StopUhr.__call__ when the exception reaches its yield: the yield is in no
\* try statement, nothing after it runs
stopuhr_raised(uhr, f, now, ds, h) ==
    [durations |-> ds[uhr], lists |-> h, emitted |-> <<>>]

\* StopUhr.__call__ after the yield, the body having ended normally:
\* duration = perf_counter() - start; self.durations[key].append(duration);
\* if log: self.printer(...). ds and h are the durations and the lists as the
\* inner block's exit left them, now the clock reading.
stopuhr_returned(uhr, f, now, ds, h) ==
    LET duration == now - f.entered
        d == durations_getitem(ds[uhr], uhr, f.key)
        ref == Entry(d, f.key).ref
    IN  [durations |-> d,
         lists |-> [h EXCEPT ![ref] = Append(@, duration)],
         emitted |-> IF f.log[1]
                     THEN <<[sink |-> printer[uhr], msg |-> took(f.key, duration, f.res[1])]>>
                     ELSE <<>>]

\* entering the with statement: StopUhr.__call__ runs to its yield
\* (start = perf_counter(), kept in the frame), then Chronometer.__call__
\* runs to its yield (self.start(key))
both_enter(uhr, self, key, u, a) ==
    /\ self \in alive
    /\ clock + 1 < MaxTime
    /\ Len(scopes) + 2 <= 2 * MaxDepth
    /\ idling_starts' = [idling_starts EXCEPT ![self] =
                            LET d == idling_getitem(idling_starts[self], key)
                            IN  SetQ(d, key, Append(Entry(d, key).q, clock + 1))]
    /\ clock' = clock + 2
    /\ scopes' = scopes \o
          << [self |-> uhr, key |-> key, res |-> Some(u.res), log |-> Some(u.log),
              printer |-> None, fn |-> None, entered |-> clock],
             [self |-> self, key |-> key, res |-> a.res, log |-> a.log,
              printer |-> a.printer, fn |-> None, entered |-> clock + 1] >>
    /\ last' = [op |-> "enter", self |-> self, key |-> key, raised |-> NoError]
    /\ emitted' = <<>>
    /\ UNCHANGED <<alive, printer, res, log, durations, lists, loop, wrapped>>

\* the body ended normally: the Chronometer's generator resumes and stops,
\* then the StopUhr's; had stop raised, the StopUhr would see that exception
\* at its yield
both_exit ==
    /\ Len(scopes) >= 2
    /\ clock + 1 < MaxTime
    /\ LET f == scopes[Len(scopes)]
           g == scopes[Len(scopes) - 1]
           e == stop_effect(f.self, f.key, f.res, f.log, f.printer)
           ds == [durations EXCEPT ![f.self] = e.durations]
           s == IF e.raised = NoError
                THEN stopuhr_returned(g.self, g, clock + 1, ds, e.lists)
                ELSE stopuhr_raised(g.self, g, clock + 1, ds, e.lists)
       IN  /\ g.self \in StopUhrs
           /\ idling_starts' = [idling_starts EXCEPT ![f.self] = e.idling_starts]
           /\ durations' = [ds EXCEPT ![g.self] = s.durations]
           /\ lists' = s.lists
           /\ emitted' = e.emitted \o s.emitted
           /\ clock' = IF e.raised = NoError THEN clock + 2 ELSE clock + 1
           /\ last' = [op |-> "exit", self |-> f.self, key |-> f.key, raised |-> e.raised,
                       args |-> [res |-> f.res, log |-> f.log, printer |-> f.printer],
                       ret |-> None]
    /\ scopes' = SubSeq(scopes, 1, Len(scopes) - 2)
    /\ UNCHANGED <<alive, printer, res, log, loop, wrapped>>

\* the body raised: the exception is thrown into the Chronometer's generator
\* at its yield, leaves it, and is thrown into the StopUhr's at its yield
both_throw ==
    /\ Len(scopes) >= 2
    /\ LET f == scopes[Len(scopes)]
           g == scopes[Len(scopes) - 1]
           s == stopuhr_raised(g.self, g, clock, durations, lists)
       IN  /\ g.self \in StopUhrs
           /\ durations' = [durations EXCEPT ![g.self] = s.durations]
           /\ lists' = s.lists
           /\ emitted' = s.emitted
           /\ clock' = clock
           /\ last' = [op |-> "throw", self |-> f.self, key |-> f.key,
                       raised |-> generator_throw(generator_throw(body_error(f)))]
    /\ scopes' = SubSeq(scopes, 1, Len(scopes) - 2)
    /\ UNCHANGED <<alive, printer, res, log, idling_starts, loop, wrapped>>

NextBoth ==
    \/ \E self \in Workers, key \in Keys, u \in StopUhrArgs, a \in CallArgs :
          both_enter("stopuhr", self, key, u, a)
    \/ both_exit
    \/ both_throw

SpecBoth == InitBoth /\ [][NextBoth]_vars

----------------------------------------------------------------------------
(* Every public operation of the Chronometers, under one key: timing by    *)
(* hand, by block and by decorator, merging, combining, resetting, and the *)
(* summary and export of what has been recorded.                           *)

\* the calls of test_function written with positional arguments only: all
\* three given, c left to its default, and b missing (TypeError)
PositionalCalls == {c \in Calls : c.kwargs = <<>> /\ c.args[1] = 1}

NextAll ==
    \/ reset("stopwatch")
    \/ start("stopwatch", "test")
    \/ stop("stopwatch", "test", None, None, None)
    \/ call_enter("stopwatch", "test", None, None, None)
    \/ call_exit
    \/ call_throw
    \/ decorate_f("stopwatch", "test", None, None, None, Only(<<"a", "c">>))
    \/ \E call \in PositionalCalls : wrapped_call(call)
    \/ \E self \in {"stopwatch", "combined"}, other \in {"stopwatch", "combined"} :
          merge(self, other)
    \/ combine(<<"stopwatch">>, FALSE)
    \/ \E self \in {"stopwatch", "combined"} : summary(self, None, None)
    \/ export("stopwatch")

SpecAll == Init /\ [][NextAll]_vars

----------------------------------------------------------------------------
(* Measurements whose message goes to a printer that raises                *)
(* (tests/test_chrono.py: assert_never).                                   *)

\* all defaults, the raising printer, and the raising printer with log=False
SinkArgs ==
    { [res |-> None, log |-> None, printer |-> None],
      [res |-> None, log |-> None, printer |-> Some("never")],
      [res |-> None, log |-> Some(TRUE), printer |-> Some("never")],
      [res |-> None, log |-> Some(FALSE), printer |-> Some("never")] }

NextSink ==
    \/ \E self \in Workers : start(self, "test")
    \/ \E self \in Workers, a \in SinkArgs : stop(self, "test", a.res, a.log, a.printer)
    \/ \E self \in Workers, a \in SinkArgs :
          call_enter(self, "test", a.res, a.log, a.printer)
    \/ call_exit
    \/ call_throw

SpecSink == Init /\ [][NextSink]_vars

----------------------------------------------------------------------------
(* A function wrapped without overrides, the instance's defaults being     *)
(* reassigned before and after (examples/basic-usage.py: stopwatch.res = 3). *)

\* the precisions an instance is given: the declared default, the 3 of the
\* examples and 0 (whole seconds)
ResValues == {0, 2, 3}

NextDefaults ==
    \/ \E value \in ResValues : set_res("stopwatch", value)
    \/ \E value \in BOOLEAN : set_log("stopwatch", value)
    \/ \E pk \in {Nothing, All} : decorate_f("stopwatch", "test", None, None, None, pk)
    \/ decorate_plain("stopwatch", "test", None, None, None)
    \/ \E call \in PositionalCalls : wrapped_call(call)
    \/ call_exit
    \/ call_throw

SpecDefaults == Init /\ [][NextDefaults]_vars

----------------------------------------------------------------------------
(* Properties *)

ViewOf(self) == View(durations[self], lists)

ConfigOf(self) == <<printer[self], res[self], log[self]>>

\* a step that ran stop (directly or as the exit of a scoped block)
StopStep == last'.op \in {"stop", "exit"} /\ clock' = clock + 1

RECURSIVE Concatenated(_, _, _)
Concatenated(timers, key, n) ==
    IF n > Len(timers) THEN <<>>
    ELSE Recorded(timers[n], key) \o Concatenated(timers, key, n + 1)

Reverse(s) == [n \in DOMAIN s |-> s[Len(s) + 1 - n]]

BagOfSeq(s) ==
    [v \in {s[n] : n \in DOMAIN s} |-> Cardinality({n \in DOMAIN s : s[n] = v})]

\* a step that called a function wrapped by f and got as far as timing it
FCalled == last.op = "call" /\ last.raised = NoError /\ wrapped[1].kind = "f"

\* the parameters a call has bound, with their values, in declared order
InDeclaredOrder(sig, bound_args) ==
    LET declared == [n \in DOMAIN sig |-> sig[n].name]
        bound == SelectSeq(declared, LAMBDA name : Has(bound_args, name))
    IN  [n \in DOMAIN bound |-> Kw(bound[n], Entry(bound_args, bound[n]).value)]

\* the value the function itself sees for a parameter in a well-formed call
ValueUsed(sig, call, name) ==
    python_bind(sig, call)[1][CHOOSE n \in DOMAIN sig : sig[n].name = name]

\* the arguments a wrapped call echoes, each with the value the function sees
Echoed(w, call) ==
    LET names == IF w.print_kwargs.kind = "all" THEN ParamNames(Signature)
                 ELSE {w.print_kwargs.names[n] : n \in DOMAIN w.print_kwargs.names}
    IN  {<<name, ValueUsed(Signature, call, name)>> : name \in names}

\* C1: every scoped-timing block, left normally or by an exception of its
\* body, appends exactly one duration to durations[key].
ScopeRecordsOnce ==
    [][Len(scopes') < Len(scopes) =>
         LET f == scopes[Len(scopes)]
         IN  Len(RecordedIn(durations', lists', f.self, f.key))
                 = Len(Recorded(f.self, f.key)) + 1]_vars

\* C2: after i start/stop pairs in strict alternation on a reset Chronometer,
\* durations[key] holds i values and no start of key is pending.
LoopPairs ==
    loop.pc = "start" =>
        /\ Len(Recorded(loop.self, loop.key)) = loop.i
        /\ Pending(loop.self, loop.key) = <<>>

LoopPairsWitness ==
    /\ loop.pc = "start" /\ loop.i >= 2
    /\ Len(Recorded(loop.self, loop.key)) = loop.i

\* C3: stop(key) with no pending start of key raises ValueError and leaves
\* durations as they were.
StopUnstarted ==
    [][(StopStep /\ Pending(last'.self, last'.key) = <<>>) =>
         /\ last'.raised = "ValueError"
         /\ durations' = durations
         /\ lists' = lists]_vars

StopUnstartedWitness ==
    /\ last.op = "stop" /\ last.raised = "ValueError"
    /\ Recorded(last.self, last.key) # <<>>

\* C4: a successful stop(key) takes the oldest open start of key: the queue
\* loses its first, smallest timestamp, and that start gives the duration.
StopMatchesOldest ==
    [][(StopStep /\ last'.raised = NoError) =>
         LET self == last'.self
             key == last'.key
             q == Pending(self, key)
         IN  /\ q # <<>>
             /\ \A n \in DOMAIN q : q[1] <= q[n]
             /\ PendingIn(idling_starts', self, key) = Tail(q)
             /\ RecordedIn(durations', lists', self, key)
                    = Append(Recorded(self, key), clock - q[1])]_vars

StopMatchesOldestWitness ==
    /\ last.op = "stop" /\ last.raised = NoError
    /\ Pending(last.self, last.key) # <<>>
    /\ \E k \in Keys \ {last.key} : Pending(last.self, k) # <<>>

\* C5: self.merge(other) leaves under every key self's earlier values followed
\* by other's values, and self's keys are its own and other's.
MergeAppends ==
    [][last'.op = "merge" => \A self, other \in Inst : merge(self, other) =>
         /\ \A k \in Keys :
               RecordedIn(durations', lists', self, k)
                   = Recorded(self, k) \o Recorded(other, k)
         /\ KeySet(durations'[self])
                = KeySet(durations[self]) \cup KeySet(durations[other])]_vars

MergeAppendsWitness ==
    /\ last.op = "merge"
    /\ Recorded("stopwatch", "test") = <<1, 3>>
    /\ Recorded("stopwatch", "test2") = <<4, 5>>

\* C6: self.merge(other) changes nothing but self's durations: every other
\* instance keeps its durations, and all pending starts stay as they were.
MergeFrame ==
    [][last'.op = "merge" => \A self, other \in Inst : merge(self, other) =>
         /\ idling_starts' = idling_starts
         /\ \A j \in Inst \ {self} :
               /\ durations'[j] = durations[j]
               /\ View(durations'[j], lists') = ViewOf(j)
         /\ UNCHANGED <<alive, printer, res, log>>]_vars

MergeFrameWitness ==
    /\ last.op = "merge"
    /\ Recorded("timer", "test") = <<3, 1>>
    /\ Recorded("stopwatch", "test") = <<1>>
    /\ Pending("stopwatch", "test") = <<0>>

\* C7: combine(t1, ..., tn) holds under every key the inputs' values
\* concatenated in argument order; the inputs taken in another order give
\* the same values per key, counted with multiplicity.
CombineConcatenates ==
    [][(last'.op = "combine" /\ last'.raised = NoError) =>
         \A k \in Keys :
            LET timers == last'.timers
                got == RecordedIn(durations', lists', "combined", k)
                back == combined_state(Reverse(timers))
            IN  /\ got = Concatenated(timers, k, 1)
                /\ BagOfSeq(got)
                     = BagOfSeq(RecordedIn(back.durations, back.lists, "combined", k))]_vars

CombineConcatenatesWitness ==
    /\ last.op = "combine" /\ last.raised = NoError
    /\ Recorded("combined", "test") = <<3, 1>>

\* C8: combine builds a new Chronometer with the first input's printer, res
\* and log and no pending start, leaves every input as it was, and shares no
\* list with an input: recording on one instance changes no other.
CombineFresh ==
    [][/\ (last'.op = "combine" /\ last'.raised = NoError) =>
            /\ ConfigOf("combined")' = ConfigOf(last'.timers[1])
            /\ idling_starts'["combined"] = <<>>
            /\ \A i \in Workers :
                  /\ View(durations'[i], lists') = ViewOf(i)
                  /\ durations'[i] = durations[i]
                  /\ idling_starts'[i] = idling_starts[i]
                  /\ ConfigOf(i)' = ConfigOf(i)
       /\ (last'.op \in {"start", "stop"} /\ clock' = clock + 1) =>
            \A j \in Inst \ {last'.self} :
               /\ View(durations'[j], lists') = ViewOf(j)
               /\ idling_starts'[j] = idling_starts[j]]_vars

CombineFreshWitness ==
    /\ last.op = "stop" /\ last.self = "combined" /\ last.raised = NoError
    /\ Len(Recorded("combined", "test")) >= 2
    /\ Recorded("stopwatch", "test") # <<>>

\* C9: export of a Chronometer with a key gives one column per key, in key
\* order, each as long as the longest list: the key's values, then only
\* missing markers.
ExportPads ==
    (last.op = "export" /\ last.raised = NoError) =>
        LET d == durations[last.self]
            M == Len(last.ret[1].column)
        IN  /\ Len(last.ret) = Len(d)
            /\ \A k \in KeySet(d) : Len(Recorded(last.self, k)) <= M
            /\ \E k \in KeySet(d) : Len(Recorded(last.self, k)) = M
            /\ \A n \in DOMAIN d :
                  LET values == lists[d[n].ref]
                      column == last.ret[n].column
                  IN  /\ last.ret[n].key = d[n].key
                      /\ Len(column) = M
                      /\ \A m \in 1..M :
                            column[m] = IF m <= Len(values) THEN Some(values[m]) ELSE None

ExportPadsWitness ==
    /\ last.op = "export" /\ last.raised = NoError
    /\ \E n \in DOMAIN last.ret :
          /\ last.ret[n].column[1] # None
          /\ last.ret[n].column[Len(last.ret[n].column)] = None

\* C10: export of a Chronometer without keys returns an empty table.
ExportEmptyIsTable ==
    (last.op = "export" /\ durations[last.self] = <<>>) =>
        (last.raised = NoError /\ last.ret = <<>>)

LogFlag ==
    [][(StopStep /\ last'.raised = NoError) =>
         LET self == last'.self
             given == last'.args.log
             flag == IF given = None THEN log[self] ELSE given[1]
         IN  /\ Len(emitted') = (IF flag THEN 1 ELSE 0)
             /\ Len(RecordedIn(durations', lists', self, last'.key))
                    = Len(Recorded(self, last'.key)) + 1]_vars

LogFlagWitness ==
    /\ last.op = "exit" /\ last.raised = NoError
    /\ last.self = "timer" /\ last.args.log = Some(TRUE)
    /\ Len(emitted) = 1
    /\ Len(Recorded("stopwatch", "test")) = 1

\* C13: the messages of stop, of a scoped block and of summary are formatted
\* with the call's res whenever one was given, 0 included; the instance's res
\* is used only when the call gave none.
PrecisionOverride ==
    (last.op \in {"stop", "exit", "summary"} /\ last.raised = NoError) =>
        LET given == last.args.res
            digits == IF given = None THEN res[last.self] ELSE given[1]
        IN  \A n \in DOMAIN emitted : emitted[n].msg.digits = digits

\* C14: when a call of a function wrapped by f(key, printer=P, ...) completes
\* with logging in effect, one message is passed to P, it reads
\* "<key> (with <arguments>) took ...", and no message goes to any other sink.
PrinterOfF ==
    (/\ last.op = "exit" /\ last.raised = NoError
     /\ wrapped # None /\ wrapped[1].kind = "f"
     /\ wrapped[1].given.printer # None
     /\ wrapped[1].log = Some(TRUE)) =>
        /\ Len(emitted) = 1
        /\ emitted[1].sink = wrapped[1].given.printer[1]
        /\ emitted[1].msg.form = "took"
        /\ emitted[1].msg.key = last.key
        /\ wrapped[1].print_kwargs.kind # "none" =>
              \E call \in Calls :
                 last.key = with_args(wrapped[1].key,
                     IF wrapped[1].print_kwargs.kind = "all"
                     THEN get_bound_args(Signature, call.args, call.kwargs)
                     ELSE filter_args(get_bound_args(Signature, call.args, call.kwargs),
                                      wrapped[1].print_kwargs.names,
                                      Len(wrapped[1].print_kwargs.names)))

\* C15: f applied with an allow-list that names something the function has no
\* parameter for raises ValueError when the function is wrapped: no wrapped
\* function comes to exist (so none is called), and durations and pending
\* starts stay as they were.
DecorateUnknownName ==
    [][(/\ last'.op = "decorate"
        /\ \E n \in DOMAIN last'.print_kwargs.names :
              last'.print_kwargs.names[n] \notin {"a", "b", "c"}) =>
         /\ last'.raised = "ValueError"
         /\ UNCHANGED <<wrapped, durations, lists, idling_starts, scopes, clock>>]_vars

DecorateUnknownNameWitness ==
    /\ last.op = "decorate" /\ last.raised = "ValueError"
    /\ last.print_kwargs = Only(<<"a", "d">>)
    /\ Recorded("stopwatch", "test") # <<>>
    /\ Pending("stopwatch", "test") # <<>>

\* C16: with print_kwargs "all" the key of a call reads "<key> (with ...)"
\* with every bound parameter once, in the order the function declares its
\* parameters, however the arguments were supplied.
AllInDeclaredOrder ==
    (FCalled /\ wrapped[1].print_kwargs = All) =>
        last.key = with_args(wrapped[1].key,
                       InDeclaredOrder(Signature,
                           get_bound_args(Signature, last.call.args, last.call.kwargs)))

\* C17: with an allow-list the key of a call reads
\* "<key> (with n1=v1, n2=v2, ...)" with exactly the listed names, in the
\* order of the list, each with the value the call uses for it.
AllowListOrder ==
    (FCalled /\ wrapped[1].print_kwargs.kind = "list") =>
        LET names == wrapped[1].print_kwargs.names
            bound_args == get_bound_args(Signature, last.call.args, last.call.kwargs)
            listed == [n \in DOMAIN names |-> Kw(names[n], Entry(bound_args, names[n]).value)]
        IN  /\ last.key = with_args(wrapped[1].key, listed)
            /\ python_bind(Signature, last.call) # None =>
                  \A n \in DOMAIN names :
                     listed[n].value = ValueUsed(Signature, last.call, names[n])

AllowListOrderWitness ==
    /\ FCalled
    /\ wrapped[1].print_kwargs = Only(<<"c", "a">>)
    /\ last.call.args = <<4, 2, 3>>
    /\ last.key = "test (with c=3, a=4)"

\* C18: a function wrapped by f with print_kwargs None behaves as one wrapped
\* by the plain decorator with the same key, res, log and printer: every call
\* is timed under the key itself, and its end records the same durations and
\* passes the same messages to the same sinks.
NoneIsPlain ==
    [][(wrapped # None /\ wrapped[1].kind = "f" /\ wrapped[1].print_kwargs = Nothing) =>
         LET w == wrapped[1]
             plain == stop_effect(w.self, w.key, w.given.res, w.given.log, w.given.printer)
         IN  /\ last'.op = "call" =>
                   /\ last'.key = w.key
                   /\ idling_starts'[w.self] = start_effect(w.self, w.key)
             /\ last'.op = "exit" =>
                   /\ durations'[w.self] = plain.durations
                   /\ lists' = plain.lists
                   /\ idling_starts'[w.self] = plain.idling_starts
                   /\ emitted' = plain.emitted]_vars

\* C19: every call of a function wrapped by the plain decorator is timed under
\* the decorator's key whatever its arguments, its return appends exactly one
\* duration under that key and under no other, and the caller gets the value
\* the function returned.
PlainRecordsOnce ==
    [][(wrapped # None /\ wrapped[1].kind = "plain") =>
         LET w == wrapped[1]
             before == Recorded(w.self, w.key)
             after == RecordedIn(durations', lists', w.self, w.key)
         IN  /\ last'.op = "call" => (last'.key = w.key /\ after = before)
             /\ last'.op = "exit" =>
                   /\ Len(after) = Len(before) + 1
                   /\ SubSeq(after, 1, Len(before)) = before
                   /\ last'.ret # None
                   /\ last'.ret = test_function(scopes[Len(scopes)].fn[1].call)
             /\ KeySet(durations'[w.self]) \subseteq {w.key}]_vars

PlainRecordsOnceWitness ==
    /\ wrapped # None /\ wrapped[1].kind = "plain"
    /\ last.op = "exit" /\ last.ret = Some(9)
    /\ Len(Recorded("stopwatch", "test")) = 2
    /\ KeySet(durations["stopwatch"]) = {"test"}

\* C20: no operation other than reset removes a key from durations or from
\* the pending starts, and the values recorded under a key stay where they
\* are: what a key holds afterwards begins with what it held before.
GrowsOnly ==
    [][last'.op # "reset" =>
         \A self \in Inst :
            /\ KeySet(durations[self]) \subseteq KeySet(durations'[self])
            /\ KeySet(idling_starts[self]) \subseteq KeySet(idling_starts'[self])
            /\ \A k \in KeySet(durations[self]) :
                  LET before == Recorded(self, k)
                      after == RecordedIn(durations', lists', self, k)
                  IN  /\ Len(before) <= Len(after)
                      /\ SubSeq(after, 1, Len(before)) = before]_vars

GrowsOnlyWitness ==
    /\ last.op = "exit" /\ last.raised = NoError
    /\ Len(Recorded("stopwatch", last.key)) = 2
    /\ Has(idling_starts["stopwatch"], last.key)
    /\ Pending("stopwatch", last.key) = <<>>

\* C21: reset leaves the instance with no key in durations and none in the
\* pending starts, open starts included, and with the printer, res and log it
\* had: the state a new Chronometer with that configuration has.
ResetClears ==
    [][last'.op = "reset" =>
         LET self == last'.self
         IN  /\ durations'[self] = <<>>
             /\ idling_starts'[self] = <<>>
             /\ \A k \in Keys :
                   /\ RecordedIn(durations', lists', self, k) = <<>>
                   /\ PendingIn(idling_starts', self, k) = <<>>
             /\ <<printer'[self], res'[self], log'[self]>> = ConfigOf(self)
             /\ \A j \in Inst \ {self} :
                   /\ View(durations'[j], lists') = ViewOf(j)
                   /\ idling_starts'[j] = idling_starts[j]]_vars

ResetClearsWitness ==
    /\ last.op = "reset"
    /\ scopes # <<>>
    /\ clock >= 3
    /\ durations[last.self] = <<>> /\ idling_starts[last.self] = <<>>

\* C22: start(key) never raises and appends one timestamp to the pending
\* queue of key; a successful stop(key) takes one timestamp from the pending
\* queue of key and appends one value to durations[key]; the queues and the
\* durations of every other key, and of every other instance, stay as they
\* were.
StartStopFrame ==
    [][/\ (last'.op = "start" /\ clock' = clock + 1) =>
            LET self == last'.self
                key == last'.key
            IN  /\ last'.raised = NoError
                /\ PendingIn(idling_starts', self, key) = Append(Pending(self, key), clock)
                /\ \A k \in Keys \ {key} :
                      PendingIn(idling_starts', self, k) = Pending(self, k)
                /\ \A k \in Keys :
                      RecordedIn(durations', lists', self, k) = Recorded(self, k)
                /\ \A j \in Inst \ {self} :
                      /\ View(durations'[j], lists') = ViewOf(j)
                      /\ idling_starts'[j] = idling_starts[j]
       /\ (last'.op = "stop" /\ clock' = clock + 1 /\ last'.raised = NoError) =>
            LET self == last'.self
                key == last'.key
            IN  /\ Len(PendingIn(idling_starts', self, key)) = Len(Pending(self, key)) - 1
                /\ Len(RecordedIn(durations', lists', self, key))
                       = Len(Recorded(self, key)) + 1
                /\ \A k \in Keys \ {key} :
                      /\ PendingIn(idling_starts', self, k) = Pending(self, k)
                      /\ RecordedIn(durations', lists', self, k) = Recorded(self, k)
                /\ \A j \in Inst \ {self} :
                      /\ View(durations'[j], lists') = ViewOf(j)
                      /\ idling_starts'[j] = idling_starts[j]]_vars

StartStopFrameWitness ==
    /\ last.op = "stop" /\ last.raised = NoError
    /\ \E k \in Keys \ {last.key} :
          /\ Recorded(last.self, k) # <<>>
          /\ Has(idling_starts[last.self], k)

\* C23: the duration a scoped block records at its exit is the clock reading
\* of that exit less the reading taken when that same block was entered,
\* however blocks and start/stop calls are nested or interleaved, blocks
\* nested under one key included.
ScopeOwnEntry ==
    [][(last'.op = "exit" /\ last'.raised = NoError) =>
         LET f == scopes[Len(scopes)]
             after == RecordedIn(durations', lists', f.self, f.key)
         IN  after[Len(after)] = clock - f.entered]_vars

\* C24: _get_bound_args gives each declared parameter the value the call
\* supplies for it: the i-th positional argument for the i-th parameter, the
\* keyword argument of its name, else its declared default, and no entry when
\* it has none; a keyword that names no parameter gives no entry.
BindsDeclared ==
    last.op = "bound" =>
        LET call == last.call
            bound_args == last.ret
        IN  /\ KeySet(bound_args) \subseteq {"a", "b", "c"}
            /\ Cardinality(KeySet(bound_args)) = Len(bound_args)
            /\ \A i \in DOMAIN Signature :
                  LET name == Signature[i].name
                      kw == {n \in DOMAIN call.kwargs : call.kwargs[n].key = name}
                      positional == i <= Len(call.args)
                  IN  ~(positional /\ kw # {}) =>
                        IF positional
                        THEN /\ Has(bound_args, name)
                             /\ Entry(bound_args, name).value = call.args[i]
                        ELSE IF kw # {}
                        THEN /\ Has(bound_args, name)
                             /\ \A n \in kw :
                                   Entry(bound_args, name).value = call.kwargs[n].value
                        ELSE IF Signature[i].default # None
                        THEN /\ Has(bound_args, name)
                             /\ Entry(bound_args, name).value = Signature[i].default[1]
                        ELSE ~Has(bound_args, name)

BindsDeclaredWitness ==
    /\ last.op = "bound"
    /\ last.call = [args |-> <<2>>, kwargs |-> <<Kw("z", 5), Kw("b", 6)>>]
    /\ last.ret = <<Kw("a", 2), Kw("b", 6), Kw("c", 3)>>

\* C25: a call of a function wrapped with an allow-list that leaves a listed
\* parameter unbound (not passed, no default) raises ValueError before the
\* function runs and before timing starts: no start is pushed, no duration
\* recorded, no message passed.
UnboundListedName ==
    [][(/\ last'.op = "call" /\ wrapped # None /\ wrapped[1].kind = "f"
        /\ wrapped[1].print_kwargs.kind = "list"
        /\ \E n \in DOMAIN wrapped[1].print_kwargs.names :
              LET name == wrapped[1].print_kwargs.names[n]
                  call == last'.call
              IN  \A i \in DOMAIN Signature :
                     Signature[i].name = name =>
                        /\ i > Len(call.args)
                        /\ \A m \in DOMAIN call.kwargs : call.kwargs[m].key # name
                        /\ Signature[i].default = None) =>
         /\ last'.raised = "ValueError"
         /\ emitted' = <<>>
         /\ UNCHANGED <<durations, lists, idling_starts, scopes, clock>>]_vars

UnboundListedNameWitness ==
    /\ last.op = "call" /\ last.raised = "ValueError"
    /\ wrapped[1].print_kwargs = Only(<<"b">>)
    /\ last.call.args = <<1>>
    /\ Recorded("stopwatch", "test (with b=2)") # <<>>

\* C26: an error raised inside a scoped block or inside a function wrapped by
\* either decorator reaches the caller as it was raised: the Chronometer
\* neither swallows it nor raises another in its place.
BodyErrorPropagates ==
    [][last'.op = "throw" =>
         LET f == scopes[Len(scopes)]
             ill_formed == f.fn # None /\ python_bind(Signature, f.fn[1].call) = None
         IN  last'.raised = (IF ill_formed THEN "TypeError" ELSE "BodyError")]_vars

BodyErrorPropagatesWitness ==
    /\ last.op = "throw" /\ last.raised = "TypeError"
    /\ wrapped # None /\ wrapped[1].kind = "f"
    /\ Pending("stopwatch", "test (with a=1, c=3)") # <<>>

\* C27: when the timed block raises, Chronometer.__call__ and StopUhr.__call__
\* differ: one of them still records a duration for the block, the other
\* records only when the block ends normally.
ScopesDifferOnRaise ==
    [][last'.op = "throw" =>
         LET key == last'.key
             self == last'.self
         IN  (RecordedIn(durations', lists', self, key) # Recorded(self, key))
                # (RecordedIn(durations', lists', "stopuhr", key) # Recorded("stopuhr", key))]_vars

\* the two agree: neither records or logs when the block raises, and each
\* records one duration when it ends normally
ScopesAgree ==
    [][last'.op \in {"throw", "exit"} =>
         LET key == last'.key
             self == last'.self
             n == IF last'.op = "exit" THEN 1 ELSE 0
         IN  /\ Len(RecordedIn(durations', lists', self, key)) = Len(Recorded(self, key)) + n
             /\ Len(RecordedIn(durations', lists', "stopuhr", key))
                   = Len(Recorded("stopuhr", key)) + n
             /\ last'.op = "throw" => emitted' = <<>>]_vars

\* C28: a call of a function wrapped by f with arguments echoed records its
\* duration under "<key> (with ...)" and leaves the bare key alone; another
\* call of the function is recorded in the same series exactly when it
\* echoes the same arguments with the same values.
EchoedValuesSeries ==
    [][(/\ last'.op = "exit" /\ last'.raised = NoError
        /\ wrapped # None /\ wrapped[1].kind = "f"
        /\ wrapped[1].print_kwargs.kind # "none") =>
         LET w == wrapped[1]
             f == scopes[Len(scopes)]
             series(c) == inner_key(w.key, w.print_kwargs, Signature, c)
         IN  /\ f.key # w.key
             /\ Len(RecordedIn(durations', lists', w.self, f.key))
                    = Len(Recorded(w.self, f.key)) + 1
             /\ RecordedIn(durations', lists', w.self, w.key) = Recorded(w.self, w.key)
             /\ \A c \in Calls :
                   (python_bind(Signature, c) # None /\ series(c).raised = NoError) =>
                      (Echoed(w, c) = Echoed(w, f.fn[1].call) <=> series(c).key = f.key)]_vars

\* C29: a scoped block whose body ends normally records exactly one duration
\* under its key on exit and its exit never raises the not-started
\* ValueError, whatever the body did with the instance, reset() and stop(key)
\* on the block's own key included.
NormalExitRecords ==
    [][last'.op = "exit" =>
         LET f == scopes[Len(scopes)]
         IN  /\ last'.raised = NoError
             /\ Len(RecordedIn(durations', lists', f.self, f.key))
                    = Len(Recorded(f.self, f.key)) + 1]_vars

\* C30: whatever public operations have run, every key of every
\* Chronometer's durations holds at least one value, and no line of a
\* summary says that a key has no durations recorded.
NoEmptySeries ==
    /\ \A self \in Inst : \A n \in DOMAIN durations[self] :
          lists[durations[self][n].ref] # <<>>
    /\ \A n \in DOMAIN emitted : emitted[n].msg.form # "none"

NoEmptySeriesWitness ==
    /\ last.op = "summary" /\ last.self = "combined"
    /\ Len(emitted) = 2
    /\ emitted[1].msg.form = "took" /\ emitted[2].msg.form = "took"
    /\ durations["stopwatch"] = <<>>

\* C31: a stop, or the exit of a scoped block, that finds a pending start and
\* logs to a printer that raises still removes the oldest start and appends
\* its duration, once, and the printer's error reaches the caller.
SinkRaises ==
    [][(/\ StopStep
        /\ Pending(last'.self, last'.key) # <<>>
        /\ (IF last'.args.log = None THEN log[last'.self] ELSE last'.args.log[1])
        /\ (IF last'.args.printer = None THEN printer[last'.self]
            ELSE last'.args.printer[1]) \in RaisingSinks) =>
         LET self == last'.self
             key == last'.key
             q == Pending(self, key)
         IN  /\ last'.raised = "AssertionError"
             /\ PendingIn(idling_starts', self, key) = Tail(q)
             /\ RecordedIn(durations', lists', self, key)
                    = Append(Recorded(self, key), clock - q[1])]_vars

SinkRaisesWitness ==
    /\ last.op = "exit" /\ last.raised = "AssertionError"
    /\ last.self = "timer"
    /\ Len(Recorded("timer", "test")) = 2
    /\ Pending("timer", "test") = <<>>

\* C32: a stop that fails leaves the whole Chronometer as it was: durations
\* and the pending starts have the keys and contents they had, no key is
\* added to either, and no printer is called.
FailedStopChangesNothing ==
    [][(last'.op = "stop" /\ clock' = clock + 1 /\ last'.raised = "ValueError") =>
         /\ emitted' = <<>>
         /\ UNCHANGED <<durations, lists, idling_starts>>]_vars

\* C33: a function wrapped by f without overrides is measured with the
\* precision and the log flag the instance had when f was applied, whatever
\* they are changed to afterwards; a function wrapped by the plain decorator
\* is measured with the instance's precision and log flag at each exit.
DefaultsFrozenByF ==
    [][(/\ last'.op = "exit" /\ last'.raised = NoError
        /\ wrapped # None
        /\ wrapped[1].given.res = None /\ wrapped[1].given.log = None) =>
         LET w == wrapped[1]
             digits == IF w.kind = "f" THEN w.defaults.res ELSE res[w.self]
             logging == IF w.kind = "f" THEN w.defaults.log ELSE log[w.self]
         IN  /\ Len(emitted') = (IF logging THEN 1 ELSE 0)
             /\ \A n \in DOMAIN emitted' : emitted'[n].msg.digits = digits]_vars

====
